---- MODULE Spec2Model ----
(***************************************************************************)
(* Model of src/utils.py: the delimited-text spectrum reader, the offset   *)
(* correction applied at the two detector joins, and the folder converter. *)
(*                                                                         *)
(* y values are binary floating-point numbers.  They are modelled on an    *)
(* integer grid with a Precision-bit significand and round-to-nearest,     *)
(* ties-to-even, so that a subtraction rounds exactly where a float64      *)
(* subtraction rounds (scaled down from 53 bits).  All values stay finite. *)
(***************************************************************************)
EXTENDS Integers, Sequences, FiniteSets, TLC

VARIABLES
    pc,               \* position of the modelled call
    lines,            \* text reader: the lines of the opened file
    n,                \* text reader: number of lines consumed by the loop
    spectral_data,    \* text reader: rows appended so far
    correct_offsets,  \* text reader: the flag
    offset_params,    \* text reader: the keyword overrides
    df,               \* correction: the parsed spectrum
    join1, join2,     \* correction: the join specification
    ret,              \* outcome of the call (returned value or raised error)
    ret2,             \* outcome of a second correction applied to ret.value
    input_folder,     \* converter: the directory entries in iteration order
    output_folder,    \* converter: the CSV files of <input>_processed, by stem
    overwrite,        \* converter: the flag
    correct_txt_offsets, \* converter: the flag
    seen,             \* converter: number of entries the loop has visited
    stdout,           \* converter: the printed lines
    history           \* converter: what each visit did (for the properties)

batchvars == <<input_folder, output_folder, overwrite, correct_txt_offsets,
               seen, stdout, history>>

vars == <<pc, lines, n, spectral_data, correct_offsets, offset_params,
          df, join1, join2, ret, ret2, batchvars>>

txtvars == <<lines, n, spectral_data, correct_offsets, offset_params>>
corrvars == <<df, join1, join2>>

None == [status |-> "none"]

(***************************************************************************)
(* Floating point                                                          *)
(***************************************************************************)
Precision == 3

RECURSIVE Pow2(_)
Pow2(e) == IF e = 0 THEN 1 ELSE 2 * Pow2(e - 1)

Abs(v) == IF v < 0 THEN -v ELSE v

\* the spacing of representable numbers around magnitude m
RECURSIVE Quantum(_, _)
Quantum(m, q) == IF m < Pow2(Precision) * q THEN q ELSE Quantum(m, 2 * q)

\* m rounded to a multiple of q, ties to the even multiple
RoundTo(m, q) ==
    LET lo == (m \div q) * q
        r  == m - lo
    IN  IF 2 * r < q THEN lo
        ELSE IF 2 * r > q THEN lo + q
        ELSE IF (lo \div q) % 2 = 0 THEN lo ELSE lo + q

\* the float nearest to the real number v
Fl(v) ==
    LET m == Abs(v)
        r == RoundTo(m, Quantum(m, 1))
    IN  IF v < 0 THEN -r ELSE r

Representable(v) == Fl(v) = v

\* a - b on floats
FSub(a, b) == Fl(a - b)

(***************************************************************************)
(* Sequences of rows                                                       *)
(***************************************************************************)
Row(x, y) == [x |-> x, y |-> y]

\* df.loc[df["x"] == v, "y"].values : the y of the rows with x == v, in order
YsAt(s, v) ==
    LET hit == SelectSeq(s, LAMBDA r : r.x = v)
    IN  [k \in 1..Len(hit) |-> hit[k].y]

\* seg["y"] = seg["y"] - d
ShiftY(s, d) == [k \in 1..Len(s) |-> Row(s[k].x, FSub(s[k].y, d))]

(***************************************************************************)
(* Offset correction (the same statements in both functions)               *)
(***************************************************************************)
Returned(v) == [status |-> "returned", value |-> v]
Raised(e, at) == [status |-> "raised", error |-> e, at |-> at]

Seg1(s, j1) == SelectSeq(s, LAMBDA r : r.x <= j1[1])

\* variant: the second segment is selected but its y is left as read
Seg2NoShift(s, j1, j2, d1) == SelectSeq(s, LAMBDA r : r.x >= j1[2] /\ r.x <= j2[1])

\* variant: the second segment starts right after join1[0]
Seg2FromA1(s, j1, j2, d1) ==
    ShiftY(SelectSeq(s, LAMBDA r : r.x > j1[1] /\ r.x <= j2[1]), d1)

Seg2(s, j1, j2, d1) ==
    ShiftY(SelectSeq(s, LAMBDA r : r.x >= j1[2] /\ r.x <= j2[1]), d1)

\* variant: the third segment is appended as read
Seg3NoShift(s, j2, d2) == SelectSeq(s, LAMBDA r : r.x > j2[1])

Seg3(s, j2, d2) == ShiftY(SelectSeq(s, LAMBDA r : r.x > j2[1]), d2)

\* variant: y3 is read from the original spectrum
SecondJoinRawY3(s, j2, transformed_array) ==
    LET y3s == YsAt(s, j2[1])
        y4s == YsAt(s, j2[2])
    IN  IF y3s = <<>> THEN Raised("IndexError", "y3")
        ELSE IF y4s = <<>> THEN Raised("IndexError", "y4")
        ELSE LET d2 == FSub(y4s[1], y3s[1])
             IN  Returned(transformed_array \o Seg3(s, j2, d2))

\* variant: a missing join2[1] leaves the third segment uncorrected
SecondJoinFallback(s, j2, transformed_array) ==
    LET y3s == YsAt(transformed_array, j2[1])
        y4s == YsAt(s, j2[2])
    IN  IF y3s = <<>> THEN Raised("IndexError", "y3")
        ELSE IF y4s = <<>> THEN Returned(transformed_array \o Seg3(s, j2, 0))
        ELSE LET d2 == FSub(y4s[1], y3s[1])
             IN  Returned(transformed_array \o Seg3(s, j2, d2))

\* second join: y3 from the corrected concatenation, y4 from the original
SecondJoin(s, j2, transformed_array) ==
    LET y3s == YsAt(transformed_array, j2[1])
        y4s == YsAt(s, j2[2])
    IN  IF y3s = <<>> THEN Raised("IndexError", "y3")
        ELSE IF y4s = <<>> THEN Raised("IndexError", "y4")
        ELSE LET d2 == FSub(y4s[1], y3s[1])
             IN  Returned(transformed_array \o Seg3(s, j2, d2))

CorrectOffsets(s, j1, j2) ==
    LET y1s == YsAt(s, j1[1])
        y2s == YsAt(s, j1[2])
    IN  IF y1s = <<>> THEN Raised("IndexError", "y1")
        ELSE IF y2s = <<>> THEN Raised("IndexError", "y2")
        ELSE LET d1 == FSub(y2s[1], y1s[1])
                 transformed_array == Seg1(s, j1) \o Seg2(s, j1, j2, d1)
             IN  SecondJoin(s, j2, transformed_array)

(***************************************************************************)
(* Delimited-text reader: one line of the file                             *)
(***************************************************************************)
TAB == "\t"
SP == " "
NL == "\n"

\* the characters str.strip() and str.split() treat as whitespace
Whitespace == {TAB, SP, NL}

Chars(s) == {s[k] : k \in 1..Len(s)}

RECURSIVE LStrip(_)
LStrip(s) == IF s # <<>> /\ Head(s) \in Whitespace THEN LStrip(Tail(s)) ELSE s

RECURSIVE RStrip(_)
RStrip(s) ==
    IF s # <<>> /\ s[Len(s)] \in Whitespace
    THEN RStrip(SubSeq(s, 1, Len(s) - 1))
    ELSE s

\* line.strip()
Strip(s) == RStrip(LStrip(s))

\* str.split(): the maximal runs of non-whitespace, in order
RECURSIVE SplitFrom(_, _, _)
SplitFrom(s, k, cur) ==
    LET flush == IF cur = <<>> THEN <<>> ELSE <<cur>>
    IN  IF k > Len(s) THEN flush
        ELSE IF s[k] \in Whitespace THEN flush \o SplitFrom(s, k + 1, <<>>)
        ELSE SplitFrom(s, k + 1, Append(cur, s[k]))

Split(s) == SplitFrom(s, 1, <<>>)

DigitVal == [c \in {"0", "1", "2", "3", "4", "8"} |->
                CASE c = "0" -> 0 [] c = "1" -> 1 [] c = "2" -> 2
                  [] c = "3" -> 3 [] c = "4" -> 4 [] c = "8" -> 8]

Digits == DOMAIN DigitVal

Unsigned(tok) == IF tok # <<>> /\ Head(tok) \in {"-", "+"} THEN Tail(tok) ELSE tok

\* float(tok) does not raise ValueError: an optional sign and at least one
\* digit (the characters of the modelled files are digits, signs, "x" and
\* whitespace)
ParsesAsFloat(tok) ==
    /\ Unsigned(tok) # <<>>
    /\ Chars(Unsigned(tok)) \subseteq Digits

RECURSIVE Decimal(_)
Decimal(ds) ==
    IF ds = <<>> THEN 0
    ELSE 10 * Decimal(SubSeq(ds, 1, Len(ds) - 1)) + DigitVal[ds[Len(ds)]]

\* float(tok): the float nearest to the decimal number
FloatOf(tok) ==
    LET m == Decimal(Unsigned(tok))
    IN  Fl(IF Head(tok) = "-" THEN -m ELSE m)

\* variant: the tab test is left out
LineOutcomeNoTabTest(line) ==
    LET parts == Split(Strip(line))
    IN  IF Len(parts) # 2 THEN "wrong_count"
        ELSE IF ParsesAsFloat(parts[1]) /\ ParsesAsFloat(parts[2])
             THEN "append"
             ELSE "value_error"

\* what the loop body does with one line
LineOutcome(line) ==
    IF TAB \notin Chars(line) THEN "no_tab"
    ELSE LET parts == Split(Strip(line))
         IN  IF Len(parts) # 2 THEN "wrong_count"
             ELSE IF ParsesAsFloat(parts[1]) /\ ParsesAsFloat(parts[2])
                  THEN "append"
                  ELSE "value_error"

ParsedRow(line) ==
    LET parts == Split(Strip(line))
    IN  Row(FloatOf(parts[1]), FloatOf(parts[2]))

\* offset_params.get(key, default)
Get(params, key, default) == IF key \in DOMAIN params THEN params[key] ELSE default

DefaultJoin1 == <<1000, 1001>>
DefaultJoin2 == <<1800, 1801>>

(***************************************************************************)
(* Bounded inputs                                                          *)
(***************************************************************************)
MaxLines == 3
MaxRows == 4

LineSamples ==
    { <<"1", TAB, "1", NL>>,               \* data row (1, 1)
      <<"2", TAB, "1", "4", NL>>,          \* data row (2, 14)
      <<SP, "3", SP, "2", TAB, NL>>,       \* blanks around, trailing tab: (3, 2)
      <<"-", "1", TAB, "1", "3">>,         \* signed x, last line without newline
      <<"x", TAB, "1", NL>>,               \* first token is not a number
      <<"1", TAB, "-", NL>>,               \* second token is not a number
      <<"1", SP, "1", NL>>,                \* two numbers, no tab
      <<"1", TAB, NL>>,                    \* one token
      <<"1", TAB, "2", TAB, "3", NL>> }    \* three tokens

Files == UNION {[1..m -> LineSamples] : m \in 0..MaxLines}

NoParams == [key \in {} |-> <<0, 0>>]

ParamSamples ==
    { NoParams,
      [key \in {"join2"} |-> <<2, 3>>],
      [key \in {"join1", "join2"} |-> IF key = "join1" THEN <<1, 2>> ELSE <<2, 3>>] }

XVals == {1, 2, 3, 4}
BigY == Pow2(Precision + 1) - 2
YVals == {1, 2, BigY}
RowVals == {Row(x, y) : x \in XVals, y \in YVals}

Spectra == UNION {[1..m -> RowVals] : m \in 0..MaxRows}

Example ==
    << Row(999, 1), Row(1000, 2), Row(1001, 5), Row(1500, 5),
       Row(1800, 3), Row(1801, 10), Row(2000, 10) >>

ExampleLacking1001 == SelectSeq(Example, LAMBDA r : r.x # 1001)

JoinSpecs ==
    { <<<<1, 2>>, <<3, 4>>>>,     \* a1 < a2 < b1 < b2
      <<<<1, 3>>, <<3, 4>>>>,     \* a2 = b1, x = 2 lies inside the first join
      <<<<1, 3>>, <<2, 4>>>>,     \* b1 strictly inside the first join
      <<<<1, 3>>, <<1, 2>>>>,     \* second join left of the first
      <<<<2, 1>>, <<3, 4>>>> }    \* first join reversed

\* the converter's variables while another call is modelled
BatchIdle ==
    /\ input_folder = <<>> /\ output_folder = <<>>
    /\ overwrite = FALSE /\ correct_txt_offsets = FALSE
    /\ seen = 0 /\ stdout = <<>> /\ history = <<>>


(***************************************************************************)
(* extract_spectrum_from_txt                                               *)
(***************************************************************************)
TxtInit ==
    /\ pc = "loop"
    /\ lines \in Files
    /\ n = 0
    /\ spectral_data = <<>>
    /\ correct_offsets \in BOOLEAN
    /\ offset_params \in ParamSamples
    /\ df = <<>> /\ join1 = <<0, 0>> /\ join2 = <<0, 0>>
    /\ ret = None /\ ret2 = None
    /\ BatchIdle

InLoop == pc = "loop" /\ n < Len(lines)

\* "\t" not in line
LoopNoTab ==
    /\ InLoop
    /\ LineOutcome(lines[n + 1]) = "no_tab"
    /\ n' = n + 1
    /\ UNCHANGED <<pc, lines, spectral_data, correct_offsets, offset_params,
                   corrvars, ret, ret2, batchvars>>

\* len(parts) != 2
LoopWrongCount ==
    /\ InLoop
    /\ LineOutcome(lines[n + 1]) = "wrong_count"
    /\ n' = n + 1
    /\ UNCHANGED <<pc, lines, spectral_data, correct_offsets, offset_params,
                   corrvars, ret, ret2, batchvars>>

\* float() raises ValueError: continue
LoopValueError ==
    /\ InLoop
    /\ LineOutcome(lines[n + 1]) = "value_error"
    /\ n' = n + 1
    /\ UNCHANGED <<pc, lines, spectral_data, correct_offsets, offset_params,
                   corrvars, ret, ret2, batchvars>>

LoopAppend ==
    /\ InLoop
    /\ LineOutcome(lines[n + 1]) = "append"
    /\ spectral_data' = Append(spectral_data, ParsedRow(lines[n + 1]))
    /\ n' = n + 1
    /\ UNCHANGED <<pc, lines, correct_offsets, offset_params, corrvars, ret, ret2, batchvars>>

\* variant: the correction is applied whatever the flag
TxtOutcomeAlwaysCorrect(rows, flag, params) ==
    CorrectOffsets(rows, Get(params, "join1", DefaultJoin1),
                         Get(params, "join2", DefaultJoin2))

\* the value of the call once the file is exhausted
TxtOutcome(rows, flag, params) ==
    IF flag
    THEN CorrectOffsets(rows, Get(params, "join1", DefaultJoin1),
                              Get(params, "join2", DefaultJoin2))
    ELSE Returned(rows)

TxtFinish ==
    /\ pc = "loop" /\ n = Len(lines)
    /\ df' = spectral_data
    /\ join1' = Get(offset_params, "join1", DefaultJoin1)
    /\ join2' = Get(offset_params, "join2", DefaultJoin2)
    /\ ret' = TxtOutcome(spectral_data, correct_offsets, offset_params)
    /\ pc' = ret'.status
    /\ UNCHANGED <<txtvars, ret2, batchvars>>

TxtNext ==
    \/ LoopNoTab
    \/ LoopWrongCount
    \/ LoopValueError
    \/ LoopAppend
    \/ TxtFinish

TxtSpec == TxtInit /\ [][TxtNext]_vars

(***************************************************************************)
(* correct_spectral_offsets on a parsed spectrum, and a second application *)
(* of the correction to the spectrum it returned                           *)
(***************************************************************************)
CorrInit ==
    /\ pc = "call"
    /\ \/ /\ df \in Spectra
          /\ \E j \in JoinSpecs : join1 = j[1] /\ join2 = j[2]
       \/ /\ df \in {Example, ExampleLacking1001, <<>>}
          /\ join1 = DefaultJoin1 /\ join2 = DefaultJoin2
    /\ ret = None /\ ret2 = None
    /\ lines = <<>> /\ n = 0 /\ spectral_data = <<>>
    /\ correct_offsets = TRUE /\ offset_params = NoParams
    /\ BatchIdle

Correct ==
    /\ pc = "call"
    /\ ret' = CorrectOffsets(df, join1, join2)
    /\ pc' = "called"
    /\ UNCHANGED <<txtvars, corrvars, ret2, batchvars>>

CorrectAgain ==
    /\ pc = "called" /\ ret.status = "returned"
    /\ ret2' = CorrectOffsets(ret.value, join1, join2)
    /\ pc' = "recalled"
    /\ UNCHANGED <<txtvars, corrvars, ret, batchvars>>

CorrNext ==
    \/ Correct
    \/ CorrectAgain

CorrSpec == CorrInit /\ [][CorrNext]_vars

(***************************************************************************)
(* Properties of the offset correction                                     *)
(***************************************************************************)
HasX(s, v) == \E k \in 1..Len(s) : s[k].x = v

\* y of the first row with x == v
FirstYAt(s, v) ==
    s[CHOOSE k \in 1..Len(s) :
        s[k].x = v /\ \A m \in 1..(k - 1) : s[m].x # v].y

HasFourJoins(s) ==
    HasX(s, join1[1]) /\ HasX(s, join1[2]) /\ HasX(s, join2[1]) /\ HasX(s, join2[2])

SortedJoins == join1[1] < join1[2] /\ join1[2] <= join2[1] /\ join2[1] < join2[2]

Called == pc \in {"called", "recalled"}

\* the three segments as the contract words them
ContractD1 == FSub(FirstYAt(df, join1[2]), FirstYAt(df, join1[1]))
ContractSeg1 == SelectSeq(df, LAMBDA r : r.x <= join1[1])
ContractSeg2 ==
    LET rows == SelectSeq(df, LAMBDA r : join1[2] <= r.x /\ r.x <= join2[1])
    IN  [k \in 1..Len(rows) |-> Row(rows[k].x, FSub(rows[k].y, ContractD1))]
ContractMerged == ContractSeg1 \o ContractSeg2
ContractD2 == FSub(FirstYAt(df, join2[2]), FirstYAt(ContractMerged, join2[1]))
ContractSeg3 ==
    LET rows == SelectSeq(df, LAMBDA r : r.x > join2[1])
    IN  [k \in 1..Len(rows) |-> Row(rows[k].x, FSub(rows[k].y, ContractD2))]
ContractResult == ContractMerged \o ContractSeg3

ExampleResult ==
    << Row(999, 1), Row(1000, 2), Row(1001, 2), Row(1500, 2),
       Row(1800, 0), Row(1801, 0), Row(2000, 0) >>

IsExampleCall == df = Example /\ join1 = DefaultJoin1 /\ join2 = DefaultJoin2

\* C1 as stated: whenever the spectrum holds the four join x-values, for any
\* join specification, the call returns seg1 + corrected seg2 + corrected seg3.
C1_Original ==
    (Called /\ HasFourJoins(df)) =>
        /\ HasX(ContractMerged, join2[1])
        /\ ret = Returned(ContractResult)

\* C1 amended: whenever the spectrum holds the four join x-values and a row
\* with x == join2[0] is in seg1 + seg2, the call returns exactly seg1, then
\* seg2 reduced by d1, then seg3 reduced by d2 (y3 read from the corrected
\* concatenation, y4 from the original); the worked example gives the listed
\* seven rows.
C1_SegmentsAsSpecified ==
    /\ (Called /\ HasFourJoins(df) /\ HasX(ContractMerged, join2[1]))
            => ret = Returned(ContractResult)
    /\ (Called /\ IsExampleCall) => ret = Returned(ExampleResult)

C1_Witness == pc = "called" /\ IsExampleCall /\ ret = Returned(ExampleResult)

JoinValueAbsent ==
    \/ ~HasX(df, join1[1])
    \/ ~HasX(df, join1[2])
    \/ ~HasX(df, join2[2])
    \/ ~HasX(ContractMerged, join2[1])

\* C2: when a required join x-value is absent from the spectrum (or join2[0]
\* from seg1 + seg2), the call ends in a lookup error and returns no spectrum.
C2_AbsentJoinRaises ==
    (Called /\ JoinValueAbsent) =>
        /\ ret.status = "raised"
        /\ ret.error = "IndexError"
        /\ "value" \notin DOMAIN ret

C2_Witness ==
    /\ pc = "called"
    /\ df = ExampleLacking1001 /\ join1 = DefaultJoin1 /\ join2 = DefaultJoin2
    /\ ret.status = "raised"

BoundaryYsDiffer(s) ==
    /\ HasX(s, join1[1]) /\ HasX(s, join1[2])
    /\ FirstYAt(s, join1[1]) # FirstYAt(s, join1[2])

\* C8 as stated: for any join specification, a second application to the
\* returned spectrum changes it unless that spectrum has
\* y(join1[0]) == y(join1[1]).
C8_Original ==
    (pc = "recalled" /\ BoundaryYsDiffer(ret.value)) => ret2 # Returned(ret.value)

\* C8 amended: for a join specification with a1 < a2 <= b1 < b2, a second
\* application to the returned spectrum succeeds and changes it whenever that
\* spectrum has y(join1[0]) # y(join1[1]).
C8_SecondCallSubtractsAgain ==
    (pc = "recalled" /\ SortedJoins /\ BoundaryYsDiffer(ret.value)) =>
        /\ ret2.status = "returned"
        /\ ret2.value # ret.value

C8_Witness ==
    /\ pc = "recalled" /\ SortedJoins /\ BoundaryYsDiffer(ret.value)
    /\ ret2.status = "returned" /\ ret2.value # ret.value

StrictlyIncreasingX(s) == \A k \in 1..(Len(s) - 1) : s[k].x < s[k + 1].x

ContinuityCase ==
    /\ Called /\ SortedJoins /\ StrictlyIncreasingX(df) /\ HasFourJoins(df)

Continuous ==
    /\ ret.status = "returned"
    /\ FirstYAt(ret.value, join1[1]) = FirstYAt(ret.value, join1[2])
    /\ FirstYAt(ret.value, join2[1]) = FirstYAt(ret.value, join2[2])
    /\ FirstYAt(ret.value, join1[1]) = FirstYAt(df, join1[1])

\* C9 as stated: for an x-sorted spectrum with distinct x holding the four
\* join values and a1 < a2 <= b1 < b2, the result has equal y on both sides of
\* each join and keeps the input's y at a1.
C9_Original == ContinuityCase => Continuous

\* neither bias subtraction rounds
BiasesExact ==
    /\ Representable(FirstYAt(df, join1[2]) - FirstYAt(df, join1[1]))
    /\ Representable(FirstYAt(df, join2[2]) - FirstYAt(ContractMerged, join2[1]))

\* C9 amended: the same, for spectra whose two biases y2 - y1 and y4 - y3 are
\* computed without rounding.
C9_ContinuousWhenExact == (ContinuityCase /\ BiasesExact) => Continuous

C9_Witness ==
    /\ pc = "called" /\ ContinuityCase /\ BiasesExact
    /\ FirstYAt(df, join1[2]) # FirstYAt(df, join1[1])
    /\ FirstYAt(df, join2[2]) # FirstYAt(df, join2[1])
    /\ Continuous

CountX(s, v) == Len(SelectSeq(s, LAMBDA r : r.x = v))
XsOf(s) == {s[k].x : k \in 1..Len(s)}
InsideJoin1(s) == SelectSeq(s, LAMBDA r : join1[1] < r.x /\ r.x < join1[2])

\* C10: with a1 < a2 <= b1 < b2, a successful correction keeps every row with
\* x <= a1 or x >= a2 exactly once, drops every row with a1 < x < a2 and adds
\* no row.
C10_RowConservation ==
    (Called /\ SortedJoins /\ ret.status = "returned") =>
        /\ \A v \in XsOf(df) \cup XsOf(ret.value) :
              CountX(ret.value, v) =
                  IF v <= join1[1] \/ v >= join1[2] THEN CountX(df, v) ELSE 0
        /\ Len(ret.value) = Len(df) - Len(InsideJoin1(df))

C10_Witness ==
    /\ pc = "called" /\ SortedJoins /\ ret.status = "returned"
    /\ Len(InsideJoin1(df)) = 1
    /\ Len(ret.value) = Len(df) - 1

(***************************************************************************)
(* Properties of the text reader                                           *)
(***************************************************************************)
\* where the whitespace-separated tokens of a line start
TokenStarts(line) ==
    {k \in 1..Len(line) :
        line[k] \notin Whitespace /\ (k = 1 \/ line[k - 1] \in Whitespace)}

TokenFrom(line, k) ==
    LET last == CHOOSE e \in k..Len(line) :
                    /\ \A m \in k..e : line[m] \notin Whitespace
                    /\ (e = Len(line) \/ line[e + 1] \in Whitespace)
    IN  SubSeq(line, k, last)

\* a tab-containing line of exactly two tokens that both parse as floats
IsDataLine(line) ==
    /\ \E k \in 1..Len(line) : line[k] = TAB
    /\ Cardinality(TokenStarts(line)) = 2
    /\ \A k \in TokenStarts(line) : ParsesAsFloat(TokenFrom(line, k))

PairOf(line) ==
    LET first  == CHOOSE k \in TokenStarts(line) : \A m \in TokenStarts(line) : k <= m
        second == CHOOSE k \in TokenStarts(line) : \A m \in TokenStarts(line) : k >= m
    IN  Row(FloatOf(TokenFrom(line, first)), FloatOf(TokenFrom(line, second)))

ExpectedRows(ls) ==
    LET keep == SelectSeq(ls, IsDataLine)
    IN  [k \in 1..Len(keep) |-> PairOf(keep[k])]

TxtEnded == pc \in {"returned", "raised"} /\ n = Len(lines)

\* C3: the rows collected from the lines read so far are exactly the data
\* lines among them, in file order, and without offset correction the call
\* returns exactly the data lines of the file.
C3_ExactlyTheDataLines ==
    /\ spectral_data = ExpectedRows(SubSeq(lines, 1, n))
    /\ (pc = "returned" /\ ~correct_offsets) => ret = Returned(ExpectedRows(lines))

C3_Witness ==
    /\ pc = "returned" /\ ~correct_offsets
    /\ Len(lines) = 3 /\ Len(ret.value) = 2 /\ ret.value[1] # ret.value[2]
    /\ \E k \in 1..3 : TAB \in Chars(lines[k]) /\ ~IsDataLine(lines[k])

Columns(spectra, wavelength) ==
    [hdu \in {"Spectra", "Wavelength"} |->
        IF hdu = "Spectra"
        THEN [col \in {"I_F_Atm"} |-> spectra]
        ELSE [col \in {"Wavelength (um)"} |-> wavelength]]

GoodFits == Columns(<<2, 4>>, <<1, 2>>)
\* no extension named Spectra
FitsNoSpectra == [hdu \in {"Wavelength"} |-> [col \in {"Wavelength (um)"} |-> <<1, 2>>]]
\* columns of different lengths
FitsMismatch == Columns(<<2>>, <<1, 2>>)

ExtractFits(hdul) ==
    IF "Spectra" \notin DOMAIN hdul \/ "Wavelength" \notin DOMAIN hdul
    THEN Raised("KeyError", "hdul")
    ELSE IF "I_F_Atm" \notin DOMAIN hdul["Spectra"]
            \/ "Wavelength (um)" \notin DOMAIN hdul["Wavelength"]
    THEN Raised("KeyError", "data")
    ELSE LET reflectance == hdul["Spectra"]["I_F_Atm"]
             wavelength == hdul["Wavelength"]["Wavelength (um)"]
         IN  IF Len(reflectance) # Len(wavelength)
             THEN Raised("ValueError", "DataFrame")
             ELSE Returned([k \in 1..Len(wavelength) |->
                               Row(wavelength[k], reflectance[k])])

(***************************************************************************)
(* preprocess_spectral_folder                                              *)
(***************************************************************************)
\* the parsing loop of the text reader as a function of the whole file
RECURSIVE ParseLines(_)
ParseLines(ls) ==
    IF ls = <<>> THEN <<>>
    ELSE LET init == ParseLines(SubSeq(ls, 1, Len(ls) - 1))
             line == ls[Len(ls)]
         IN  IF LineOutcome(line) = "append"
             THEN Append(init, ParsedRow(line))
             ELSE init

ReadTxt(ls, flag, params) == TxtOutcome(ParseLines(ls), flag, params)

Entry(stem, suffix, content) == [stem |-> stem, suffix |-> suffix, content |-> content]

\* file.name
NameOf(e) == <<e.stem, e.suffix>>

GoodTxt ==
    << <<"1", TAB, "1", NL>>, <<"2", TAB, "1", "4", NL>>, <<SP, "3", SP, "2", TAB, NL>> >>
\* a header line and one data row: the join x-values are absent
TxtLackingJoins == << <<"x", TAB, "1", NL>>, <<"1", TAB, "1", NL>> >>

EntrySamples ==
    { Entry("a", ".fits", GoodFits), Entry("a", ".fits", FitsNoSpectra),
      Entry("a", ".fits", FitsMismatch),
      Entry("a", ".txt", GoodTxt), Entry("a", ".txt", TxtLackingJoins),
      Entry("b", ".txt", GoodTxt), Entry("b", ".txt", TxtLackingJoins),
      Entry("c", ".md", <<>>) }

MaxEntries == 3

\* a directory holds each name once; iterdir() yields them in any order
Listings ==
    {l \in UNION {[1..m -> EntrySamples] : m \in 0..MaxEntries} :
        \A i, j \in 1..Len(l) : i # j => NameOf(l[i]) # NameOf(l[j])}

BatchJoins == [key \in {"join1", "join2"} |-> IF key = "join1" THEN <<1, 2>> ELSE <<2, 3>>]

\* df.to_csv(output_csv, index=False)
Csv(rows) == [header |-> <<"x", "y">>, rows |-> rows]
\* what a write that fails partway leaves behind
TruncatedCsv == [header |-> <<"x", "y">>, truncated |-> TRUE]
\* a CSV left by an earlier run
OldCsv == Csv(<<Row(0, 0)>>)

OutputFolders ==
    UNION {[stems -> {OldCsv}] : stems \in SUBSET {"a", "b"}}

\* the outcome of opening and writing the target: written, refused on open,
\* or failed partway
WriteFates == {"ok", "open_fails", "write_fails"}

Recognized(e) == e.suffix = ".fits" \/ e.suffix = ".txt"

\* the reader the suffix selects, called on the file
ReadEntry(e, flag, params) ==
    IF e.suffix = ".fits" THEN ExtractFits(e.content)
    ELSE ReadTxt(e.content, flag, params)

Put(folder, stem, file) ==
    [t \in DOMAIN folder \cup {stem} |-> IF t = stem THEN file ELSE folder[t]]

\* variant: an existing target is rewritten whatever the flag
LoopBodySkipsNothing(e, folder, ow, flag, params, fate) ==
    IF ~Recognized(e)
    THEN [class |-> "unrecognized", read |-> FALSE, after |-> folder,
          printed |-> <<[kind |-> "skipping", file |-> NameOf(e), suffix |-> e.suffix]>>]
    ELSE LET r == ReadEntry(e, flag, params)
         IN  IF r.status = "raised"
             THEN [class |-> "read_error", read |-> TRUE, after |-> folder,
                   printed |-> <<[kind |-> "error", file |-> NameOf(e), message |-> r.error]>>]
             ELSE [class |-> "written", read |-> TRUE,
                   after |-> Put(folder, e.stem, Csv(r.value)), printed |-> <<>>]

\* one iteration of the loop over input_folder.iterdir()
LoopBody(e, folder, ow, flag, params, fate) ==
    IF ~Recognized(e)
    THEN [class |-> "unrecognized", read |-> FALSE, after |-> folder,
          printed |-> <<[kind |-> "skipping", file |-> NameOf(e), suffix |-> e.suffix]>>]
    ELSE IF e.stem \in DOMAIN folder /\ ~ow
    THEN [class |-> "exists", read |-> FALSE, after |-> folder,
          printed |-> <<[kind |-> "warning", file |-> <<e.stem, ".csv">>]>>]
    ELSE LET r == ReadEntry(e, flag, params)
         IN  IF r.status = "raised"
             THEN [class |-> "read_error", read |-> TRUE, after |-> folder,
                   printed |-> <<[kind |-> "error", file |-> NameOf(e), message |-> r.error]>>]
             ELSE IF fate = "ok"
             THEN [class |-> "written", read |-> TRUE,
                   after |-> Put(folder, e.stem, Csv(r.value)), printed |-> <<>>]
             ELSE IF fate = "open_fails"
             THEN [class |-> "write_error", read |-> TRUE, after |-> folder,
                   printed |-> <<[kind |-> "error", file |-> NameOf(e), message |-> "OSError"]>>]
             ELSE [class |-> "write_error", read |-> TRUE,
                   after |-> Put(folder, e.stem, TruncatedCsv),
                   printed |-> <<[kind |-> "error", file |-> NameOf(e), message |-> "OSError"]>>]

BatchInit ==
    /\ pc = "iterdir"
    /\ input_folder \in Listings
    /\ output_folder \in OutputFolders
    /\ overwrite \in BOOLEAN
    /\ correct_txt_offsets \in BOOLEAN
    /\ offset_params = BatchJoins
    /\ seen = 0 /\ stdout = <<>> /\ history = <<>>
    /\ lines = <<>> /\ n = 0 /\ spectral_data = <<>> /\ correct_offsets = FALSE
    /\ df = <<>> /\ join1 = <<0, 0>> /\ join2 = <<0, 0>>
    /\ ret = None /\ ret2 = None

Visit(class, fates) ==
    /\ pc = "iterdir" /\ seen < Len(input_folder)
    /\ \E fate \in fates :
         LET e == input_folder[seen + 1]
             step == LoopBody(e, output_folder, overwrite, correct_txt_offsets,
                              offset_params, fate)
         IN  /\ step.class = class
             /\ output_folder' = step.after
             /\ stdout' = stdout \o step.printed
             /\ history' = Append(history,
                   [before |-> output_folder, fate |-> fate, class |-> step.class,
                    read |-> step.read, after |-> step.after, printed |-> step.printed])
    /\ seen' = seen + 1
    /\ UNCHANGED <<pc, txtvars, corrvars, ret, ret2, input_folder, overwrite,
                   correct_txt_offsets>>

VisitUnrecognized == seen < Len(input_folder) /\ Visit("unrecognized", {"ok"})

VisitExisting == seen < Len(input_folder) /\ Visit("exists", {"ok"})

VisitReadError == seen < Len(input_folder) /\ Visit("read_error", {"ok"})

VisitWritten == seen < Len(input_folder) /\ Visit("written", {"ok"})

VisitWriteError ==
    seen < Len(input_folder) /\ Visit("write_error", {"open_fails", "write_fails"})

\* the listing is exhausted: the function returns None
BatchReturn ==
    /\ pc = "iterdir" /\ seen = Len(input_folder)
    /\ pc' = "done"
    /\ UNCHANGED <<txtvars, corrvars, ret, ret2, batchvars>>

BatchNext ==
    \/ VisitUnrecognized
    \/ VisitExisting
    \/ VisitReadError
    \/ VisitWritten
    \/ VisitWriteError
    \/ BatchReturn

BatchSpec == BatchInit /\ [][BatchNext]_vars

(***************************************************************************)
(* Properties of the folder converter                                      *)
(***************************************************************************)
InitialFolder == IF history = <<>> THEN output_folder ELSE history[1].before

Visited == 1..Len(history)

ReaderResult(i) == ReadEntry(input_folder[i], correct_txt_offsets, offset_params)

WarningFor(e) == [kind |-> "warning", file |-> <<e.stem, ".csv">>]

\* the visit of entry i read the file and left its spectrum in <stem>.csv
Rewritten(i) ==
    LET e == input_folder[i]
        h == history[i]
    IN  /\ h.read
        /\ ReaderResult(i).status = "returned"
        /\ e.stem \in DOMAIN h.after
        /\ h.after[e.stem] = Csv(ReaderResult(i).value)

SkipsExisting(i) ==
    LET e == input_folder[i]
        h == history[i]
    IN  (~overwrite /\ e.stem \in DOMAIN h.before) =>
            /\ ~h.read
            /\ h.after = h.before
            /\ h.printed = <<WarningFor(e)>>

AllTargetsExist ==
    \A i \in 1..Len(input_folder) :
        Recognized(input_folder[i]) => input_folder[i].stem \in DOMAIN InitialFolder

RecognizedCount ==
    Cardinality({i \in 1..Len(input_folder) : Recognized(input_folder[i])})

RerunChangesNothing ==
    (pc = "done" /\ ~overwrite /\ AllTargetsExist) =>
        /\ output_folder = InitialFolder
        /\ Len(SelectSeq(stdout, LAMBDA l : l.kind = "warning")) = RecognizedCount
        /\ \A i \in Visited : ~history[i].read

\* C5 as stated: without overwrite an entry whose target exists is skipped
\* with one notice and the target untouched; with overwrite every recognized
\* entry is read and its target is rewritten.
C5_Original ==
    /\ \A i \in Visited :
          Recognized(input_folder[i]) =>
              /\ SkipsExisting(i)
              /\ overwrite => Rewritten(i)
    /\ RerunChangesNothing

\* C5 amended: without overwrite an entry whose target exists is skipped with
\* one notice, the reader not called and the target untouched, so a re-run
\* over existing outputs changes no file; with overwrite every recognized
\* entry is read, and its target is rewritten when its reader and its write
\* succeed.
C5_OverwritePolicy ==
    /\ \A i \in Visited :
          Recognized(input_folder[i]) =>
              /\ SkipsExisting(i)
              /\ overwrite => history[i].read
              /\ (overwrite /\ ReaderResult(i).status = "returned"
                            /\ history[i].fate = "ok") => Rewritten(i)
    /\ RerunChangesNothing

C5_Witness ==
    /\ pc = "done" /\ ~overwrite /\ AllTargetsExist
    /\ RecognizedCount = 2 /\ Len(input_folder) = 3
    /\ output_folder = InitialFolder
    /\ Len(stdout) = 3

Failed(i) == history[i].class \in {"read_error", "write_error"}

\* the output folder entry j would meet had the visit of entry i succeeded
RECURSIVE FolderAsIfOk(_, _)
FolderAsIfOk(i, j) ==
    IF j = 1 THEN InitialFolder
    ELSE LET before == FolderAsIfOk(i, j - 1)
             e == input_folder[j - 1]
         IN  IF j - 1 = i
             THEN Put(before, e.stem, Csv(<<>>))
             ELSE LoopBody(e, before, overwrite, correct_txt_offsets,
                           offset_params, history[j - 1].fate).after

TargetIn(folder, e) == IF e.stem \in DOMAIN folder THEN {folder[e.stem]} ELSE {}

\* entry j was processed as it would have been had entry i not failed
SameAsIfOk(i, j) ==
    LET e == input_folder[j]
        ideal == LoopBody(e, FolderAsIfOk(i, j), overwrite, correct_txt_offsets,
                          offset_params, history[j].fate)
    IN  /\ history[j].class = ideal.class
        /\ history[j].read = ideal.read
        /\ history[j].printed = ideal.printed
        /\ TargetIn(history[j].after, e) = TargetIn(ideal.after, e)

ErrorsReported ==
    \A i \in Visited :
        Failed(i) =>
            /\ Len(history[i].printed) = 1
            /\ history[i].printed[1].kind = "error"
            /\ history[i].printed[1].file = NameOf(input_folder[i])

DistinctStems ==
    \A i, j \in 1..Len(input_folder) :
        (i # j /\ Recognized(input_folder[i]) /\ Recognized(input_folder[j]))
            => input_folder[i].stem # input_folder[j].stem

\* C6: the loop ends having visited every entry; each failure is reported
\* with the entry's name; every entry after a failed one is processed as if
\* the failure had not happened.
C6_FailureIsolation ==
    pc = "done" =>
        /\ Len(history) = Len(input_folder)
        /\ ErrorsReported
        /\ \A i, j \in Visited : (Failed(i) /\ i < j) => SameAsIfOk(i, j)

\* the same for folders whose recognized entries have pairwise distinct stems
C6_IsolationDistinctStems == DistinctStems => C6_FailureIsolation

NothingFailed == \A i \in Visited : ~Failed(i)

EveryRecognizedEntryConverted ==
    /\ \A i \in Visited :
          LET e == input_folder[i]
          IN  IF Recognized(e)
              THEN /\ ReaderResult(i).status = "returned"
                   /\ e.stem \in DOMAIN output_folder
                   /\ output_folder[e.stem] = Csv(ReaderResult(i).value)
              ELSE /\ history[i].after = history[i].before
                   /\ Len(history[i].printed) = 1
                   /\ history[i].printed[1].kind = "skipping"
    /\ DOMAIN output_folder =
          {input_folder[i].stem : i \in {k \in Visited : Recognized(input_folder[k])}}

\* every recognized entry is a file its reader accepts
AllReadable ==
    \A i \in 1..Len(input_folder) :
        Recognized(input_folder[i]) => ReaderResult(i).status = "returned"

\* C7: after a run from an empty output folder in which nothing fails, every
\* recognized entry has <stem>.csv holding its spectrum, there is no other
\* file, and each unrecognized entry got one notice and no file.
C7_OneCsvPerRecognizedEntry ==
    (pc = "done" /\ InitialFolder = <<>> /\ AllReadable /\ NothingFailed)
        => EveryRecognizedEntryConverted

\* the same for folders whose recognized entries have pairwise distinct stems
C7_DistinctStems == DistinctStems => C7_OneCsvPerRecognizedEntry

====
